---------------------------- MODULE Spec2Model ----------------------------
(***************************************************************************)
(* Model of the retrieval subsystem of rag-chatbot-policy:                 *)
(*   src/src/ingestion.py    DocumentIngestor  (chunker)                   *)
(*   src/src/vectorstore.py  FAISSVectorStore  (index + metadata sidecar)  *)
(*   src/src/retrieval.py    Retriever                                     *)
(*   src/api.py              FastAPI handlers over one process-wide store  *)
(*   src/app.py              Streamlit script, one store per chat          *)
(*                                                                         *)
(* A text is the sequence of its whitespace-delimited words (what          *)
(* str.split() yields).  A word is a numeral: the natural number n stands  *)
(* for the word whose characters are the decimal digits of n.              *)
(* A vector is a tuple of integers; distances are squared L2 distances.    *)
(***************************************************************************)
EXTENDS Integers, Sequences, FiniteSets, TLC

\* ------------------------------------------------------------------ bounds
\* Largest top_k a request asks for.
MaxTopK == 3
\* Largest index a crashed save leaves behind (a crash between the two writes
\* of save lets the index file grow without bound across restarts).
MaxVectors == 3

\* ------------------------------------------------------- program constants
DefaultChunkSize == 500
DefaultOverlap == 100
MinChunkChars == 50
DefaultTopK == 3

Max(a, b) == IF a >= b THEN a ELSE b
Min(a, b) == IF a <= b THEN a ELSE b

\* ---------------------------------------------------------------- chunker
\* len(w) of a word: the number of decimal digits of the numeral.
RECURSIVE WordLen(_)
WordLen(w) == IF w < 10 THEN 1 ELSE 1 + WordLen(w \div 10)

\* The characters of " ".join(block[lo..hi]): the words' characters plus one
\* space between neighbours, summed by halves.
RECURSIVE CharsBetween(_, _, _)
CharsBetween(block, lo, hi) ==
    IF lo > hi THEN 0
    ELSE IF lo = hi THEN WordLen(block[lo])
    ELSE LET mid == (lo + hi) \div 2
         IN  CharsBetween(block, lo, mid) + 1 + CharsBetween(block, mid + 1, hi)

\* len(" ".join(block).strip()); words hold no whitespace, so strip removes
\* nothing.
JoinLen(block) == CharsBetween(block, 1, Len(block))

\* words[i:i + chunk_size] with a 0-based i.
Window(words, i, chunk_size) == SubSeq(words, i + 1, Min(i + chunk_size, Len(words)))

\* ChunksFrom keeping a block of exactly MinChunkChars characters too.
RECURSIVE ChunksFromGE(_, _, _, _)
ChunksFromGE(words, i, chunk_size, step) ==
    IF i >= Len(words) THEN << >>
    ELSE LET block == Window(words, i, chunk_size)
         IN  (IF JoinLen(block) >= MinChunkChars THEN << block >> ELSE << >>)
             \o ChunksFromGE(words, i + step, chunk_size, step)

\* The loop of chunk_text from 0-based offset i on.
RECURSIVE ChunksFrom(_, _, _, _)
ChunksFrom(words, i, chunk_size, step) ==
    IF i >= Len(words) THEN << >>
    ELSE LET block == Window(words, i, chunk_size)
         IN  (IF JoinLen(block) > MinChunkChars THEN << block >> ELSE << >>)
             \o ChunksFrom(words, i + step, chunk_size, step)

chunk_text_no_overlap(words, chunk_size, overlap) ==
    ChunksFrom(words, 0, chunk_size, Max(1, chunk_size))

chunk_text(words, chunk_size, overlap) ==
    ChunksFrom(words, 0, chunk_size, Max(1, chunk_size - overlap))

\* A file name: its stem and its extension; prefix is what the caller put in
\* front of the uploaded name ("" in the API, the chat id in the UI).
FileName(prefix, stem, ext) == [prefix |-> prefix, stem |-> stem, ext |-> ext]

\* ----------------------------------------------------------- vector store
\* model.encode of one text: the embedding provider, a deterministic map
\* from a text to a vector.
Embed(text) ==
    IF Len(text) = 0 THEN << 0, 0 >> ELSE << Len(text) % 7, text[1] >>

\* Squared Euclidean distance (IndexFlatL2).
RECURSIVE L2From(_, _, _)
L2From(u, v, i) ==
    IF i > Len(u) THEN 0
    ELSE (u[i] - v[i]) * (u[i] - v[i]) + L2From(u, v, i + 1)

L2(u, v) == L2From(u, v, 1)

\* A file of the store: present or not, and what it holds.
NoFile == [exists |-> FALSE, content |-> << >>]
FileOf(content) == [exists |-> TRUE, content |-> content]

\* OpenStore loading whenever the index file exists.
OpenStoreIndexOnly(path, idx_file, meta_file) ==
    IF idx_file.exists
    THEN [index_path |-> path, index |-> idx_file.content, metadata |-> meta_file.content]
    ELSE [index_path |-> path, index |-> << >>, metadata |-> << >>]

\* FAISSVectorStore.__init__ over the two files found at index_path.
OpenStore(path, idx_file, meta_file) ==
    IF idx_file.exists /\ meta_file.exists
    THEN [index_path |-> path, index |-> idx_file.content, metadata |-> meta_file.content]
    ELSE [index_path |-> path, index |-> << >>, metadata |-> << >>]

\* HasSource looking at the last record only.
HasSourceLast(store, source) ==
    /\ Len(store.metadata) > 0
    /\ store.metadata[Len(store.metadata)].source = source

\* The duplicate guard of add_documents.
HasSource(store, source) ==
    \E i \in 1..Len(store.metadata) : store.metadata[i].source = source

\* add_documents goes past both early returns.
Accepts(store, chunks, source) == ~HasSource(store, source) /\ chunks # << >>

\* The metadata records add_documents appends for chunks of source.
NewMetadata(chunks, source) ==
    [i \in 1..Len(chunks) |-> [text |-> chunks[i], source |-> source, chunk_id |-> i - 1]]

\* The vectors index.add receives.
NewVectors(chunks) == [i \in 1..Len(chunks) |-> Embed(chunks[i])]

\* add_documents putting the new vectors in front of the index.
add_documents_prepend(store, chunks, source) ==
    IF Accepts(store, chunks, source)
    THEN [store EXCEPT !.index = NewVectors(chunks) \o @,
                       !.metadata = @ \o NewMetadata(chunks, source)]
    ELSE store

\* The store object after add_documents(chunks, source).
add_documents(store, chunks, source) ==
    IF Accepts(store, chunks, source)
    THEN [store EXCEPT !.index = @ \o NewVectors(chunks),
                       !.metadata = @ \o NewMetadata(chunks, source)]
    ELSE store

\* get_stats
Sources(store) == {store.metadata[i].source : i \in 1..Len(store.metadata)}

get_stats(store) ==
    [total_chunks |-> Len(store.index),
     total_documents |-> Cardinality(Sources(store)),
     sources |-> Sources(store)]

\* Ranked taking the first k positions instead of the nearest.
RECURSIVE RankedUnordered(_, _, _, _)
RankedUnordered(index, qemb, cand, k) ==
    IF k = 0 \/ cand = {} THEN {<< >>}
    ELSE LET i == CHOOSE c \in cand : \A d \in cand : c <= d
         IN  {<< i >> \o r : r \in RankedUnordered(index, qemb, cand \ {i}, k - 1)}

\* index.search(qemb, k): the sequences of k distinct positions, nearest
\* first; which of several equidistant vectors comes first is left to the
\* library, so every order of a tie is an outcome.
RECURSIVE Ranked(_, _, _, _)
Ranked(index, qemb, cand, k) ==
    IF k = 0 \/ cand = {} THEN {<< >>}
    ELSE LET best == {i \in cand : \A j \in cand : L2(qemb, index[i]) <= L2(qemb, index[j])}
         IN  UNION {{<< i >> \o r : r \in Ranked(index, qemb, cand \ {i}, k - 1)} : i \in best}

\* The loop of search over the returned positions I (1-based here).
RECURSIVE Collect(_, _, _, _)
Collect(store, qemb, I, n) ==
    IF n > Len(I) THEN << >>
    ELSE (IF 1 <= I[n] /\ I[n] <= Len(store.metadata)
          THEN << [meta |-> store.metadata[I[n]], dist |-> L2(qemb, store.index[I[n]])] >>
          ELSE << >>)
         \o Collect(store, qemb, I, n + 1)

\* search(query, top_k): the results it can return.
search(store, query, top_k) ==
    IF Len(store.index) = 0 THEN {<< >>}
    ELSE {Collect(store, Embed(query), I, 1) :
            I \in Ranked(store.index, Embed(query), 1..Len(store.index),
                         Min(top_k, Len(store.index)))}


\* save(): the two writes, index file first, then the .meta sidecar.
write_index(files, store) == [files EXCEPT ![store.index_path] = FileOf(store.index)]

dump_metadata(files, store) == [files EXCEPT ![store.index_path] = FileOf(store.metadata)]

\* ------------------------------------------------------------ model inputs
\* Chat ids (uuid4 prefixes); 0 stands for "no chat" in paths and names.
MaxChats == 2
ChatIds == 1..MaxChats

\* index_path of the API's store ("faiss.index") and of a chat's store
\* (f"faiss_{chat_id}.index"); the sidecar of p is p + ".meta".
ApiPath == << "faiss.index", 0 >>
ChatPath(id) == << "faiss_{}.index", id >>
IndexPaths == {ApiPath} \cup {ChatPath(id) : id \in ChatIds}

\* n one-digit words, the first being `first`.
Numerals(n, first) == [i \in 1..n |-> (first + i - 1) % 10]

TextEmpty == << >>
\* 24 one-digit words and one two-digit word: exactly 50 characters joined.
TextFifty == Numerals(24, 1) \o << 10 >>
\* 26 one-digit words: 51 characters, one chunk.
TextOne == Numerals(26, 1)
\* 426 words: windows at offsets 0 and 400, the second of 26 words.
TextTwo == Numerals(426, 3)
Texts == {TextEmpty, TextFifty, TextOne, TextTwo}

\* ingestor = DocumentIngestor(): chunk_text with the default chunk_size and
\* overlap, tabulated over the texts of the model.
ingestor == [text \in Texts |-> chunk_text(text, DefaultChunkSize, DefaultOverlap)]

\* process_document: (chunks, filename); load_pdf / load_txt yield the text.
process_document(filename, text) ==
    IF filename.ext \in {".pdf", ".txt"}
    THEN [chunks |-> ingestor[text], name |-> filename]
    ELSE [chunks |-> << >>, name |-> filename]

\* Chunk lists a direct caller of add_documents passes.
ChunkLists == {<< >>, << << 1 >> >>, << << 2, 5 >>, << 1 >> >>}

Queries == {<< 1 >>, << 3, 3 >>}
TopKs == 1..MaxTopK

\* Names a client uploads under.
UploadNames == {[stem |-> "a", ext |-> ".txt"], [stem |-> "b", ext |-> ".pdf"]}
OtherNames == {[stem |-> "c", ext |-> ".docx"]}

\* Concurrent uploads.  Two handlers writing one file mix its characters, not
\* its words, so the body of such an upload is the sequence of its characters:
\* a digit 0..9, or -1 for a whitespace character.
RECURSIVE Digits(_)
Digits(w) == IF w < 10 THEN << w >> ELSE Digits(w \div 10) \o << w % 10 >>

\* " ".join(words), as characters.
RECURSIVE Join(_)
Join(words) ==
    IF words = << >> THEN << >>
    ELSE IF Len(words) = 1 THEN Digits(words[1])
    ELSE Join(SubSeq(words, 1, Len(words) - 1)) \o << -1 >> \o Digits(words[Len(words)])

\* text.split() from character i on; word is the numeral read so far.
RECURSIVE SplitFrom(_, _, _, _)
SplitFrom(chars, i, word, in_word) ==
    IF i > Len(chars) THEN (IF in_word THEN << word >> ELSE << >>)
    ELSE IF chars[i] < 0
         THEN (IF in_word THEN << word >> ELSE << >>) \o SplitFrom(chars, i + 1, 0, FALSE)
         ELSE SplitFrom(chars, i + 1, word * 10 + chars[i], TRUE)

Split(chars) == SplitFrom(chars, 1, 0, FALSE)

\* What a file holds after `written` went in at offset 0 through a handle
\* opened when the file held nothing, the file holding `held` by now.
Overlay(written, held) == written \o SubSeq(held, Len(written) + 1, Len(held))

BodyEmpty == << >>
\* The 51 characters of TextOne: one chunk.
BodyOne == Join(TextOne)
\* Two one-digit words with more white space between them than BodyOne has
\* characters: longer than BodyOne, and no chunk.
BodyPadded == << 7 >> \o [i \in 1..(Len(BodyOne) + 1) |-> -1] \o << 8 >>
Bodies == {BodyEmpty, BodyOne, BodyPadded}

\* Names of concurrently uploaded files, and the requests in flight.
IngestNames == {[stem |-> "a", ext |-> ".txt"], [stem |-> "d", ext |-> ".txt"]}
MaxRequests == 2
ReqIds == 1..MaxRequests

DataPaths ==
    {FileName(p, f.stem, f.ext) : p \in {0} \cup ChatIds, f \in UploadNames}
    \cup {FileName(0, f.stem, f.ext) : f \in IngestNames}

\* References to the store objects of a Streamlit session; 0 is None.
Refs == 1..3

\* ------------------------------------------------------------------ state
VARIABLES
    idx_files,       \* index_path -> the serialized index at that path
    meta_files,      \* index_path -> the pickled metadata at path + ".meta"
    data_files,      \* data/<name> -> the uploaded text
    api_running,     \* the API process is up
    vs,              \* api.py: the process-wide FAISSVectorStore
    response,        \* what the last request or call gave back
    chats,           \* app.py: st.session_state.chats
    active_chat_idx, \* app.py: st.session_state.active_chat_idx (0-based)
    heap,            \* app.py: the FAISSVectorStore objects of the session
    vectorstore,     \* app.py: st.session_state.vectorstore (a reference)
    retriever,       \* app.py: the store st.session_state.retriever holds
    ui_out,          \* app.py: what the last script run showed
    chunked,         \* ingestion.py: the last chunk_text call and its result
    requests         \* api.py: the ingest requests of the event loop

disk == << idx_files, meta_files, data_files >>
api_vars == << api_running, vs, response >>
ui_vars == << chats, active_chat_idx, heap, vectorstore, retriever, ui_out >>
vars == << idx_files, meta_files, data_files, api_running, vs, response,
           chats, active_chat_idx, heap, vectorstore, retriever, ui_out,
           chunked, requests >>

\* A store object that no longer exists (its process or session is gone).
NoStore == [index_path |-> << "", 0 >>, index |-> << >>, metadata |-> << >>]

Reply(op, status, detail) ==
    [op |-> op, status |-> status, detail |-> detail,
     filename |-> FileName(0, "", ""), chunks_created |-> 0,
     query |-> << >>, top_k |-> 0,
     results |-> << >>, stats |-> get_stats(NoStore)]

NoReply == Reply("", 0, "")

\* ----------------------------------------------------------------- api.py
\* POST /ingest
ingest(f, text) ==
    /\ api_running
    /\ IF f.ext \notin {".pdf", ".txt"}
       THEN /\ response' = Reply("ingest", 400, "Only PDF/TXT supported")
            /\ UNCHANGED << disk, vs >>
       ELSE LET path == FileName(0, f.stem, f.ext)
                doc == process_document(path, text)
                after == add_documents(vs, doc.chunks, doc.name)
            IN  /\ data_files' = [data_files EXCEPT ![path] = FileOf(text)]
                /\ IF doc.chunks = << >>
                   THEN /\ response' = Reply("ingest", 400, "No extractable text")
                        /\ UNCHANGED << idx_files, meta_files, vs >>
                   ELSE /\ vs' = after
                        /\ IF Accepts(vs, doc.chunks, doc.name)
                           THEN /\ idx_files' = write_index(idx_files, after)
                                /\ meta_files' = dump_metadata(meta_files, after)
                           ELSE UNCHANGED << idx_files, meta_files >>
                        /\ response' = [Reply("ingest", 200, "success") EXCEPT
                                           !.filename = doc.name,
                                           !.chunks_created = Len(doc.chunks)]
    /\ api_running' = api_running
    /\ UNCHANGED << ui_vars, chunked, requests >>

\* POST /ingest of an accepted document, the process dying in save() after
\* faiss.write_index and before the sidecar is written.
ingest_crash(f, text) ==
    /\ api_running
    /\ f.ext \in {".pdf", ".txt"}
    /\ LET path == FileName(0, f.stem, f.ext)
           doc == process_document(path, text)
           after == add_documents(vs, doc.chunks, doc.name)
       IN  /\ Accepts(vs, doc.chunks, doc.name)
           /\ Len(after.index) <= MaxVectors
           /\ data_files' = [data_files EXCEPT ![path] = FileOf(text)]
           /\ idx_files' = write_index(idx_files, after)
    /\ api_running' = FALSE
    /\ vs' = NoStore
    /\ response' = NoReply
    /\ UNCHANGED << meta_files, ui_vars, chunked, requests >>

\* The process ends between requests.
stop ==
    /\ api_running
    /\ api_running' = FALSE
    /\ vs' = NoStore
    /\ response' = NoReply
    /\ UNCHANGED << disk, ui_vars, chunked, requests >>

\* Module import of api.py: vs = FAISSVectorStore().
start ==
    /\ ~api_running
    /\ api_running' = TRUE
    /\ vs' = OpenStore(ApiPath, idx_files[ApiPath], meta_files[ApiPath])
    /\ response' = NoReply
    /\ UNCHANGED << disk, ui_vars, chunked, requests >>

\* GET /stats
stats ==
    /\ api_running
    /\ response' = [Reply("stats", 200, "") EXCEPT !.stats = get_stats(vs)]
    /\ UNCHANGED << disk, api_running, vs, ui_vars, chunked, requests >>

\* POST /retrieve
retrieve(query, top_k) ==
    /\ api_running
    /\ IF get_stats(vs).total_chunks = 0
       THEN response' = Reply("retrieve", 400, "Index is empty.")
       ELSE \E results \in search(vs, query, top_k) :
                response' = [Reply("retrieve", 200, "") EXCEPT
                                !.query = query, !.results = results]
    /\ UNCHANGED << disk, api_running, vs, ui_vars, chunked, requests >>

\* ----------------------------------------------------------- chunker calls
\* Word lists for direct calls of chunk_text.  A long word has ten characters, so
\* that a window of a few words can pass the length filter; a mixed list has a
\* short word in every third place, so that some full windows do not.  The
\* words of a list are distinct.
MaxWords == 11
MaxChunkSize == 7
LongWords(n) == [i \in 1..n |-> 1000000000 + i]
MixedWords(n) == [i \in 1..n |-> IF i % 3 = 2 THEN i ELSE 1000000000 + i]
WordLists == {LongWords(n) : n \in 0..MaxWords} \cup {MixedWords(n) : n \in 0..MaxWords}
ChunkSizes == 1..MaxChunkSize

\* The record of a chunk_text call: the ingestor's parameters, the words of the
\* text, and the chunks returned.
Chunking(words, chunk_size, overlap, chunks) ==
    [words |-> words, chunk_size |-> chunk_size, overlap |-> overlap, chunks |-> chunks]
NoChunking == Chunking(<< >>, DefaultChunkSize, DefaultOverlap, << >>)

\* A request of the event loop: where its handler stands ("idle": not yet
\* received; "reading": suspended in `await file.read()`; "done": answered),
\* the upload it carries and its answer.
Request(pc, f, body, reply) == [pc |-> pc, file |-> f, body |-> body, reply |-> reply]
NoRequests == [r \in ReqIds |-> Request("idle", FileName(0, "", ""), << >>, NoReply)]

\* ------------------------------------------------------------------- init
Init ==
    /\ idx_files = [p \in IndexPaths |-> NoFile]
    /\ meta_files = [p \in IndexPaths |-> NoFile]
    /\ data_files = [p \in DataPaths |-> NoFile]
    /\ api_running = TRUE
    /\ vs = OpenStore(ApiPath, NoFile, NoFile)
    /\ response = NoReply
    /\ chats = << >>
    /\ active_chat_idx = 0
    /\ heap = [r \in Refs |-> NoStore]
    /\ vectorstore = 0
    /\ retriever = 0
    /\ ui_out = NoReply
    /\ chunked = NoChunking
    /\ requests = NoRequests

ApiRequest ==
    \/ \E f \in UploadNames \cup OtherNames, text \in Texts : ingest(f, text)
    \/ \E query \in Queries, top_k \in TopKs : retrieve(query, top_k)
    \/ stats

\* The API server: requests, restarts between them, and a crash in save().
Next ==
    \/ ApiRequest
    \/ stop
    \/ start
    \/ \E f \in UploadNames, text \in Texts : ingest_crash(f, text)

Spec == Init /\ [][Next]_vars

\* ------------------------------------------- FAISSVectorStore, called directly
\* vs.add_documents(chunks, source)
call_add_documents(chunks, source) ==
    LET after == add_documents(vs, chunks, source)
    IN  /\ vs' = after
        /\ IF Accepts(vs, chunks, source)
           THEN /\ idx_files' = write_index(idx_files, after)
                /\ meta_files' = dump_metadata(meta_files, after)
           ELSE UNCHANGED << idx_files, meta_files >>
        /\ response' = [Reply("add_documents", 0, "") EXCEPT
                           !.filename = source, !.chunks_created = Len(chunks)]
        /\ UNCHANGED << data_files, api_running, ui_vars, chunked, requests >>

\* vs.search(query, top_k)
call_search(query, top_k) ==
    /\ \E results \in search(vs, query, top_k) :
           response' = [Reply("search", 0, "") EXCEPT
                           !.query = query, !.top_k = top_k, !.results = results]
    /\ UNCHANGED << disk, api_running, vs, ui_vars, chunked, requests >>

\* vs.get_stats()
call_get_stats ==
    /\ response' = [Reply("get_stats", 0, "") EXCEPT !.stats = get_stats(vs)]
    /\ UNCHANGED << disk, api_running, vs, ui_vars, chunked, requests >>

\* vs = FAISSVectorStore(index_path=vs.index_path): a reload.
reopen ==
    /\ vs' = OpenStore(vs.index_path, idx_files[vs.index_path], meta_files[vs.index_path])
    /\ response' = Reply("open", 0, "")
    /\ UNCHANGED << disk, api_running, ui_vars, chunked, requests >>

NextStore ==
    \/ \E chunks \in ChunkLists, f \in UploadNames \cup OtherNames :
           call_add_documents(chunks, FileName(0, f.stem, f.ext))
    \/ \E query \in Queries, top_k \in TopKs : call_search(query, top_k)
    \/ call_get_stats
    \/ reopen

\* One FAISSVectorStore at the default path and a caller of its methods.
SpecStore == Init /\ [][NextStore]_vars

\* ----------------------------------------------------------------- app.py
\* One action is one run of the script, started by one widget event.  The
\* chat transcript (messages, titles) only selects what is drawn and is left
\* out; the upload expander of both views runs the same code.
\* Files the uploader offers (type=["pdf", "txt"]) and what they hold.
UiTexts == {TextFifty, TextOne}
UiNames == {[stem |-> "a", ext |-> ".txt"]}
UiUploads == {[stem |-> f.stem, ext |-> f.ext, text |-> t] : f \in UiNames, t \in UiTexts}
MaxUpload == 2
UploadBatches == UNION {[1..n -> UiUploads] : n \in 1..MaxUpload}

\* A reference no live name holds: where a new FAISSVectorStore is put.
NewRef == CHOOSE r \in Refs : r \notin {vectorstore, retriever}

\* The heap with store put at ref, objects nothing refers to dropped.
HeapWith(h, ref, store, live) ==
    [r \in Refs |-> IF r = ref THEN store ELSE IF r \in live THEN h[r] ELSE NoStore]

\* st.session_state.chats[st.session_state.active_chat_idx]
Active == chats[active_chat_idx + 1]

\* create_new_chat(), chat_id being the uuid4 prefix drawn.
create_new_chat(chat_id) ==
    LET idx_path == ChatPath(chat_id)
        store == OpenStore(idx_path, idx_files[idx_path], meta_files[idx_path])
        chat == [id |-> chat_id, vectorstore_path |-> idx_path, sources |-> << >>]
    IN  /\ chats' = Append(chats, chat)
        /\ active_chat_idx' = Len(chats)
        /\ vectorstore' = NewRef
        /\ retriever' = NewRef
        /\ heap' = HeapWith(heap, NewRef, store, {})

\* switch_to_chat moving the active index and keeping the loaded store.
switch_to_chat_keep_store(idx) ==
    /\ active_chat_idx' = idx
    /\ UNCHANGED << vectorstore, retriever, heap, chats >>

\* switch_to_chat(idx)
switch_to_chat(idx) ==
    LET path == chats[idx + 1].vectorstore_path
        store == OpenStore(path, idx_files[path], meta_files[path])
    IN  /\ active_chat_idx' = idx
        /\ vectorstore' = NewRef
        /\ retriever' = NewRef
        /\ heap' = HeapWith(heap, NewRef, store, {})
        /\ UNCHANGED chats

\* str(uuid.uuid4())[:8]: an id no chat of the session has; which of the
\* unused ids is drawn makes no difference, the least stands for all.
FreshIds == {id \in ChatIds : \A i \in 1..Len(chats) : chats[i].id # id}
uuid4 == CHOOSE id \in FreshIds : \A other \in FreshIds : id <= other

\* The first run of a session: "vectorstore" is not in st.session_state.
first_run ==
    /\ vectorstore = 0
    /\ FreshIds # {}
    /\ create_new_chat(uuid4)
    /\ ui_out' = Reply("start", 0, "")
    /\ UNCHANGED << disk, api_vars, chunked, requests >>

\* "+ New chat"
new_chat ==
    /\ vectorstore # 0
    /\ FreshIds # {}
    /\ create_new_chat(uuid4)
    /\ ui_out' = Reply("new_chat", 0, "")
    /\ UNCHANGED << disk, api_vars, chunked, requests >>

\* The sidebar selectbox moved to another chat.
select_chat(idx) ==
    /\ vectorstore # 0
    /\ idx \in 0..(Len(chats) - 1)
    /\ idx # active_chat_idx
    /\ switch_to_chat(idx)
    /\ ui_out' = Reply("select_chat", 0, "")
    /\ UNCHANGED << disk, api_vars, chunked, requests >>

\* reset_index removing the index file and forgetting the sidecar.
reset_index_keep_sidecar ==
    /\ vectorstore # 0
    /\ LET path == Active.vectorstore_path
           store == OpenStore(path, NoFile, meta_files[path])
       IN  /\ idx_files' = [idx_files EXCEPT ![path] = NoFile]
           /\ vectorstore' = NewRef
           /\ retriever' = NewRef
           /\ heap' = HeapWith(heap, NewRef, store, {})
           /\ chats' = [chats EXCEPT ![active_chat_idx + 1].sources = << >>]
    /\ ui_out' = Reply("reset", 0, "Index cleared")
    /\ UNCHANGED << meta_files, data_files, active_chat_idx, api_vars, chunked, requests >>

\* "Reset this chat index"
reset_index ==
    /\ vectorstore # 0
    /\ LET path == Active.vectorstore_path
           store == OpenStore(path, NoFile, NoFile)
       IN  /\ idx_files' = [idx_files EXCEPT ![path] = NoFile]
           /\ meta_files' = [meta_files EXCEPT ![path] = NoFile]
           /\ vectorstore' = NewRef
           /\ retriever' = NewRef
           /\ heap' = HeapWith(heap, NewRef, store, {})
           /\ chats' = [chats EXCEPT ![active_chat_idx + 1].sources = << >>]
    /\ ui_out' = Reply("reset", 0, "Index cleared")
    /\ UNCHANGED << data_files, active_chat_idx, api_vars, chunked, requests >>

\* The body of "for f in up_files" for file n, on the state st the loop has
\* built: the store object, the three kinds of file, the chat's sources and
\* the counter.
UploadStep(st, chat_id, f) ==
    LET fp == FileName(chat_id, f.stem, f.ext)
        doc == process_document(fp, f.text)
        after == add_documents(st.store, doc.chunks, doc.name)
        saved == Accepts(st.store, doc.chunks, doc.name)
        listed == \E i \in 1..Len(st.sources) : st.sources[i] = doc.name
    IN  IF doc.chunks = << >>
        THEN [st EXCEPT !.data = [@ EXCEPT ![fp] = FileOf(f.text)]]
        ELSE [store |-> after,
              idx |-> IF saved THEN write_index(st.idx, after) ELSE st.idx,
              meta |-> IF saved THEN dump_metadata(st.meta, after) ELSE st.meta,
              data |-> [st.data EXCEPT ![fp] = FileOf(f.text)],
              sources |-> IF listed THEN st.sources ELSE Append(st.sources, doc.name),
              added |-> st.added + 1]

RECURSIVE UploadLoop(_, _, _, _)
UploadLoop(st, chat_id, up_files, n) ==
    IF n > Len(up_files) THEN st
    ELSE UploadLoop(UploadStep(st, chat_id, up_files[n]), chat_id, up_files, n + 1)

\* "Process files" over the files chosen in the uploader.
process_files(up_files) ==
    /\ vectorstore # 0
    /\ LET st == UploadLoop([store |-> heap[vectorstore], idx |-> idx_files,
                             meta |-> meta_files, data |-> data_files,
                             sources |-> Active.sources, added |-> 0],
                            Active.id, up_files, 1)
       IN  /\ heap' = [heap EXCEPT ![vectorstore] = st.store]
           /\ idx_files' = st.idx
           /\ meta_files' = st.meta
           /\ data_files' = st.data
           /\ chats' = [chats EXCEPT ![active_chat_idx + 1].sources = st.sources]
           /\ ui_out' = [Reply("process_files", 0, "Successfully added") EXCEPT
                            !.chunks_created = st.added]
    /\ UNCHANGED << active_chat_idx, vectorstore, retriever, api_vars, chunked, requests >>

\* A question typed into the chat input.
ask(query) ==
    /\ vectorstore # 0
    /\ IF get_stats(heap[vectorstore]).total_chunks = 0
       THEN ui_out' = Reply("ask", 0, "Please upload policy documents first")
       ELSE \E results \in search(heap[retriever], query, DefaultTopK) :
                ui_out' = [Reply("ask", 0, "") EXCEPT
                              !.query = query, !.top_k = DefaultTopK, !.results = results]
    /\ UNCHANGED << disk, chats, active_chat_idx, heap, vectorstore, retriever, api_vars, chunked, requests >>

NextUI ==
    \/ first_run
    \/ new_chat
    \/ \E idx \in 0..(MaxChats - 1) : select_chat(idx)
    \/ reset_index
    \/ \E up_files \in UploadBatches : process_files(up_files)
    \/ \E query \in Queries : ask(query)

\* One Streamlit session.
SpecUI == Init /\ [][NextUI]_vars

\* ------------------------------------------------- ingestion.py, directly
\* DocumentIngestor(chunk_size, overlap).chunk_text(" ".join(words))
call_chunk_text(words, chunk_size, overlap) ==
    /\ chunked' = Chunking(words, chunk_size, overlap,
                           chunk_text(words, chunk_size, overlap))
    /\ UNCHANGED << disk, api_vars, ui_vars, requests >>

NextChunk ==
    \E words \in WordLists, chunk_size \in ChunkSizes :
        \E overlap \in 0..chunk_size : call_chunk_text(words, chunk_size, overlap)

SpecChunk == Init /\ [][NextChunk]_vars

\* ------------------------------------------- api.py, requests interleaved
\* The store side of a process: the store object and its two artifacts.
World(store, idx, meta, reply) ==
    [vs |-> store, idx_files |-> idx, meta_files |-> meta, reply |-> reply]

\* ingest from process_document on (api.py lines 45-49), the file at path
\* holding content.
ingest_document(w, path, content) ==
    LET chunks == chunk_text(Split(content), DefaultChunkSize, DefaultOverlap)
        after == add_documents(w.vs, chunks, path)
        saved == Accepts(w.vs, chunks, path)
    IN  IF chunks = << >>
        THEN World(w.vs, w.idx_files, w.meta_files,
                   Reply("ingest", 400, "No extractable text"))
        ELSE World(after,
                   IF saved THEN write_index(w.idx_files, after) ELSE w.idx_files,
                   IF saved THEN dump_metadata(w.meta_files, after) ELSE w.meta_files,
                   [Reply("ingest", 200, "success") EXCEPT
                       !.filename = path, !.chunks_created = Len(chunks)])

\* POST /ingest up to its await: the extension test, and open(path, "wb"),
\* which creates or empties the file; the handler then waits for the body.
ingest_open(r, f, body) ==
    /\ api_running
    /\ requests[r].pc = "idle"
    /\ IF f.ext \notin {".pdf", ".txt"}
       THEN /\ requests' = [requests EXCEPT ![r] =
                   Request("done", f, body, Reply("ingest", 400, "Only PDF/TXT supported"))]
            /\ response' = Reply("ingest", 400, "Only PDF/TXT supported")
            /\ UNCHANGED data_files
       ELSE /\ requests' = [requests EXCEPT ![r] = Request("reading", f, body, NoReply)]
            /\ data_files' = [data_files EXCEPT ![FileName(0, f.stem, f.ext)] = FileOf(<< >>)]
            /\ UNCHANGED response
    /\ UNCHANGED << idx_files, meta_files, api_running, vs, ui_vars, chunked >>

\* POST /ingest from its await on, in one piece: f.write(body) at offset 0 of
\* the handle, close, process_document, add_documents, the answer.
ingest_resume(r) ==
    /\ api_running
    /\ requests[r].pc = "reading"
    /\ LET path == FileName(0, requests[r].file.stem, requests[r].file.ext)
           content == Overlay(requests[r].body, data_files[path].content)
           w == ingest_document(World(vs, idx_files, meta_files, NoReply), path, content)
       IN  /\ data_files' = [data_files EXCEPT ![path] = FileOf(content)]
           /\ vs' = w.vs
           /\ idx_files' = w.idx_files
           /\ meta_files' = w.meta_files
           /\ response' = w.reply
           /\ requests' = [requests EXCEPT ![r].pc = "done", ![r].reply = w.reply]
    /\ UNCHANGED << api_running, ui_vars, chunked >>

NextRequests ==
    \/ \E r \in ReqIds, f \in IngestNames \cup OtherNames, body \in Bodies :
           ingest_open(r, f, body)
    \/ \E r \in ReqIds : ingest_resume(r)

SpecRequests == Init /\ [][NextRequests]_vars

\* ================================================================= claims
\* Vectors and metadata have one length and position i of one is the
\* embedding of the text at position i of the other.
Aligned(index, metadata) ==
    /\ Len(index) = Len(metadata)
    /\ \A i \in 1..Len(index) : index[i] = Embed(metadata[i].text)

\* C1: after any sequence of add_documents calls and reloads, the store in
\* memory and the persisted pair are aligned: equal lengths, and the
\* metadata at i is the record of the chunk embedded as vector i.
C1_Alignment ==
    /\ Aligned(vs.index, vs.metadata)
    /\ idx_files[vs.index_path].exists = meta_files[vs.index_path].exists
    /\ Aligned(idx_files[vs.index_path].content, meta_files[vs.index_path].content)

\* A reload has just brought back three or more vectors of two sources.
C1_Witness ==
    /\ response.op = "open"
    /\ Len(vs.index) >= 3
    /\ Cardinality(Sources(vs)) >= 2

\* C2: the persisted index and the persisted metadata never disagree: both
\* exist or neither does, and they hold the same number of entries.
C2_AtomicPersistence ==
    /\ idx_files[ApiPath].exists = meta_files[ApiPath].exists
    /\ Len(idx_files[ApiPath].content) = Len(meta_files[ApiPath].content)

\* No two metadata records carry the same (source, chunk_id), and there is
\* one vector per record.
AppendedOnce(store) ==
    /\ Len(store.index) = Len(store.metadata)
    /\ \A i, j \in 1..Len(store.metadata) :
           (/\ store.metadata[i].source = store.metadata[j].source
            /\ store.metadata[i].chunk_id = store.metadata[j].chunk_id) => i = j

\* C3: every source is appended at most once, and add_documents for a source
\* already in the metadata changes neither the store, nor the persisted
\* pair, nor the stats, whatever chunks it is given.
C3_SourceDedup ==
    /\ [](AppendedOnce(vs))
    /\ [][(/\ response'.op = "add_documents"
           /\ \E i \in 1..Len(vs.metadata) : vs.metadata[i].source = response'.filename)
          => (/\ vs' = vs
              /\ idx_files' = idx_files
              /\ meta_files' = meta_files
              /\ get_stats(vs') = get_stats(vs))]_vars

\* add_documents was just called with two chunks for a source that holds one.
C3_Witness ==
    /\ response.op = "add_documents"
    /\ response.chunks_created = 2
    /\ Cardinality({i \in 1..Len(vs.metadata) : vs.metadata[i].source = response.filename}) = 1

\* C4: an ingest that reports success with N chunks created has appended N
\* records; a skipped duplicate is not reported as an addition.
C4_SkipReported ==
    [][(response'.op = "ingest" /\ response'.status = 200)
       => Len(vs'.metadata) = Len(vs.metadata) + response'.chunks_created]_vars

\* C5: a store is never opened with a vector count that differs from the
\* length of its metadata list.
C5_OpenVerifies ==
    [][(~api_running /\ api_running') => Len(vs'.index) = Len(vs'.metadata)]_vars

\* C6: opened where exactly one of the two artifacts exists, the store is a
\* fresh empty index with an empty metadata list.
C6_LoneArtifactIsAbsent ==
    [][(/\ ~api_running
        /\ api_running'
        /\ idx_files[ApiPath].exists # meta_files[ApiPath].exists)
       => (vs'.index = << >> /\ vs'.metadata = << >>)]_vars

\* The process has just started over an index file without its sidecar.
C6_Witness ==
    /\ api_running
    /\ response = NoReply
    /\ idx_files[ApiPath].exists
    /\ Len(idx_files[ApiPath].content) > 0
    /\ ~meta_files[ApiPath].exists
    /\ vs.index = << >>
    /\ vs.metadata = << >>

\* C7: search returns min(top_k, ntotal) pairs in ascending distance, each a
\* stored record with its distance to the query; nothing on an empty store.
C7_TopK ==
    response.op = "search" =>
        LET r == response.results
            qemb == Embed(response.query)
        IN  /\ Len(r) = Min(response.top_k, Len(vs.index))
            /\ \A n \in 1..(Len(r) - 1) : r[n].dist <= r[n + 1].dist
            /\ \A n \in 1..Len(r) :
                   \E i \in 1..Len(vs.metadata) :
                       /\ r[n].meta = vs.metadata[i]
                       /\ r[n].dist = L2(qemb, vs.index[i])
            /\ (Len(vs.index) = 0 => r = << >>)

\* A search asked for more than the store holds and got all of it, nearest
\* first.
C7_Witness ==
    /\ response.op = "search"
    /\ response.top_k > Len(vs.index)
    /\ Len(response.results) = 2
    /\ response.results[1].dist < response.results[2].dist

\* No window of chunk_text over text, with the default sizes, joins to more
\* than MinChunkChars characters.
NoChunk(text) ==
    \A i \in 0..(Len(text) - 1) :
        i % (DefaultChunkSize - DefaultOverlap) = 0
            => JoinLen(Window(text, i, DefaultChunkSize)) <= MinChunkChars

\* C10 as stated: every upload that yields no chunks (an unsupported type
\* included) fails as "No extractable text" and leaves the index alone.
C10_Original ==
    [][\A f \in UploadNames \cup OtherNames, text \in Texts :
           (/\ ingest(f, text)
            /\ (f.ext \notin {".pdf", ".txt"} \/ NoChunk(text)))
           => (/\ response'.status = 400
               /\ response'.detail = "No extractable text"
               /\ UNCHANGED << vs, idx_files, meta_files >>)]_vars

\* C10 amended: a .pdf/.txt upload that yields no chunks fails as "No
\* extractable text", an unsupported type fails as "Only PDF/TXT supported",
\* and either way store, index file and sidecar are unchanged.
C10_ZeroChunks ==
    [][\A f \in UploadNames \cup OtherNames, text \in Texts :
           (/\ ingest(f, text)
            /\ (f.ext \notin {".pdf", ".txt"} \/ NoChunk(text)))
           => (/\ response'.status = 400
               /\ response'.detail = (IF f.ext \in {".pdf", ".txt"}
                                      THEN "No extractable text"
                                      ELSE "Only PDF/TXT supported")
               /\ UNCHANGED << vs, idx_files, meta_files >>)]_vars

\* A 50-character upload was just refused over a store that holds vectors.
C10_Witness ==
    /\ response.op = "ingest"
    /\ response.status = 400
    /\ response.detail = "No extractable text"
    /\ \E p \in DataPaths : data_files[p] = FileOf(TextFifty)
    /\ Len(vs.index) > 0

\* C8: a reset leaves neither artifact at the chat's path and an empty store
\* in use (no chunks, no documents, no sources), for the retriever too; and
\* a document uploaded right after a reset is appended, whether or not its
\* source was indexed before.
C8_Reset ==
    [][/\ ui_out'.op = "reset"
          => LET path == chats'[active_chat_idx' + 1].vectorstore_path
             IN  /\ ~idx_files'[path].exists
                 /\ ~meta_files'[path].exists
                 /\ heap'[vectorstore'].index_path = path
                 /\ get_stats(heap'[vectorstore']) =
                        [total_chunks |-> 0, total_documents |-> 0, sources |-> {}]
                 /\ heap'[vectorstore'].metadata = << >>
                 /\ retriever' = vectorstore'
                 /\ chats'[active_chat_idx' + 1].sources = << >>
       /\ \A up \in UiUploads :
              (/\ ui_out.op = "reset"
               /\ process_files(<< up >>)
               /\ ~NoChunk(up.text))
              => LET source == FileName(Active.id, up.stem, up.ext)
                     store == heap'[vectorstore']
                 IN  /\ Sources(store) = {source}
                     /\ Len(store.index) = Len(ingestor[up.text])
                     /\ meta_files'[store.index_path] = FileOf(store.metadata)
                     /\ idx_files'[store.index_path] = FileOf(store.index)]_vars

\* A chat whose document had been indexed was just reset: the upload is
\* still under data/, the store in use is empty and its files are gone.
C8_Witness ==
    /\ ui_out.op = "reset"
    /\ data_files[FileName(Active.id, "a", ".txt")] = FileOf(TextOne)
    /\ heap[vectorstore].index = << >>
    /\ ~idx_files[Active.vectorstore_path].exists

\* Every record of metadata comes from an upload made in chat chat_id.
OwnedBy(metadata, chat_id) ==
    \A i \in 1..Len(metadata) : metadata[i].source.prefix = chat_id

\* C9: the store and the retriever in use are the active chat's: one object,
\* opened at the active chat's path and equal to what is persisted there;
\* every chat's persisted records, and every result of a query, come from
\* uploads made while that chat was active.
C9_Isolation ==
    vectorstore # 0 =>
        /\ retriever = vectorstore
        /\ heap[vectorstore].index_path = Active.vectorstore_path
        /\ heap[vectorstore].metadata = meta_files[Active.vectorstore_path].content
        /\ heap[vectorstore].index = idx_files[Active.vectorstore_path].content
        /\ OwnedBy(heap[vectorstore].metadata, Active.id)
        /\ \A i \in 1..Len(chats) :
               OwnedBy(meta_files[chats[i].vectorstore_path].content, chats[i].id)
        /\ ui_out.op = "ask" =>
               \A n \in 1..Len(ui_out.results) :
                   ui_out.results[n].meta.source.prefix = Active.id

\* Two chats hold documents and a query was just answered in the first,
\* after switching back to it.
C9_Witness ==
    /\ Len(chats) = 2
    /\ active_chat_idx = 0
    /\ \A i \in 1..2 : Len(meta_files[chats[i].vectorstore_path].content) > 0
    /\ ui_out.op = "ask"
    /\ Len(ui_out.results) > 0


\* The word offset at which an emitted chunk starts (the words are distinct).
OffsetOf(words, chunk) == (CHOOSE i \in 1..Len(words) : words[i] = chunk[1]) - 1

\* The first n words of the later chunk are the last n words of the earlier.
Overlapping(earlier, later, n) ==
    /\ Len(earlier) >= n
    /\ Len(later) >= n
    /\ SubSeq(later, 1, n) = SubSeq(earlier, Len(earlier) - n + 1, Len(earlier))

\* Every emitted chunk is the window at a multiple of the step, in rising order.
WindowStarts(c, step) ==
    \A k \in 1..Len(c.chunks) :
        LET off == OffsetOf(c.words, c.chunks[k])
        IN  /\ off % step = 0
            /\ c.chunks[k] = Window(c.words, off, c.chunk_size)
            /\ k > 1 => OffsetOf(c.words, c.chunks[k - 1]) < off

\* C11 as stated: for 0 <= overlap < chunk_size the windows start at 0, step,
\* 2*step, ... with step = chunk_size - overlap, and every two consecutive
\* emitted chunks overlap by `overlap` words.
C11_Original ==
    chunked.overlap < chunked.chunk_size =>
        /\ WindowStarts(chunked, chunked.chunk_size - chunked.overlap)
        /\ \A k \in 1..(Len(chunked.chunks) - 1) :
               Overlapping(chunked.chunks[k], chunked.chunks[k + 1], chunked.overlap)

\* C11: for 0 <= overlap < chunk_size the emitted chunks are windows starting at
\* multiples of step = chunk_size - overlap, in rising order; two consecutive
\* emitted chunks that come from adjacent windows overlap by `overlap` words
\* when the earlier one holds chunk_size words, and otherwise (the earlier one
\* was cut short by the end of the text) the later chunk is the earlier one
\* without its first step words.
C11_Overlap ==
    chunked.overlap < chunked.chunk_size =>
        LET c == chunked
            step == c.chunk_size - c.overlap
        IN  /\ WindowStarts(c, step)
            /\ \A k \in 1..(Len(c.chunks) - 1) :
                   LET earlier == c.chunks[k]
                       later == c.chunks[k + 1]
                   IN  OffsetOf(c.words, later) = OffsetOf(c.words, earlier) + step =>
                           IF Len(earlier) = c.chunk_size
                           THEN Overlapping(earlier, later, c.overlap)
                           ELSE later = SubSeq(earlier, step + 1, Len(earlier))

\* Two chunks from adjacent full windows that share a non-empty overlap.
C11_Witness ==
    /\ chunked.overlap >= 1
    /\ chunked.overlap < chunked.chunk_size
    /\ \E k \in 1..(Len(chunked.chunks) - 1) :
           /\ OffsetOf(chunked.words, chunked.chunks[k + 1])
                  = OffsetOf(chunked.words, chunked.chunks[k])
                    + chunked.chunk_size - chunked.overlap
           /\ Len(chunked.chunks[k]) = chunked.chunk_size
           /\ Len(chunked.chunks[k + 1]) = chunked.chunk_size
           /\ Overlapping(chunked.chunks[k], chunked.chunks[k + 1], chunked.overlap)


\* POST /ingest with no other request in between: the file holds the body.
ingest_alone(w, f, body) ==
    IF f.ext \notin {".pdf", ".txt"} THEN w
    ELSE ingest_document(w, FileName(0, f.stem, f.ext), body)

\* The store side after the requests of `order` ran one after the other.
RECURSIVE Serially(_, _)
Serially(order, w) ==
    IF order = << >> THEN w
    ELSE Serially(Tail(order),
                  ingest_alone(w, requests[Head(order)].file, requests[Head(order)].body))

\* The answered requests, and the orders they can be put in.
Answered == {r \in ReqIds : requests[r].pc = "done"}
Orders(S) == {o \in [1..Cardinality(S) -> S] : \A i, j \in DOMAIN o : o[i] = o[j] => i = j}
Quiescent == \A r \in ReqIds : requests[r].pc # "reading"

\* The arrays of the process-wide store and of its persisted pair are parallel
\* and hold every source once.
ArraysKept ==
    /\ Aligned(vs.index, vs.metadata)
    /\ AppendedOnce(vs)
    /\ idx_files[ApiPath].exists = meta_files[ApiPath].exists
    /\ idx_files[ApiPath].exists =>
           /\ idx_files[ApiPath].content = vs.index
           /\ meta_files[ApiPath].content = vs.metadata

\* C12: whatever the interleaving of concurrent ingest requests against the
\* process-wide store, once all of them are answered the store and its
\* persisted pair are what some serial order of the same requests produces,
\* the arrays being parallel and every source appended once.
C12_Serialized ==
    Quiescent =>
        /\ ArraysKept
        /\ \E order \in Orders(Answered) :
               LET w == Serially(order, World(OpenStore(ApiPath, NoFile, NoFile),
                                              [p \in IndexPaths |-> NoFile],
                                              [p \in IndexPaths |-> NoFile], NoReply))
               IN  /\ vs = w.vs
                   /\ idx_files = w.idx_files
                   /\ meta_files = w.meta_files

=============================================================================
